---- MODULE Spec2Model ----
(***************************************************************************)
(* Model of the Modal / ModalRegion pair (source/Modal.ts,                 *)
(* source/modalRegion.ts, source/dom/isNested.ts) running on a browser     *)
(* page: the DOM tree, the page-wide window.modalRegion slot, the          *)
(* setTimeout queue, the promise (microtask) queue and the click events.   *)
(*                                                                         *)
(* An optional value (an option of the options record, a field that may be *)
(* undefined) is a sequence: <<>> is undefined, <<v>> is the value v.      *)
(* A DOM node is a pair <<kind, id>>.                                      *)
(***************************************************************************)
EXTENDS Integers, Sequences, FiniteSets, TLC

\* ------------------------------------------------------------------ bounds
\* Number of `new Modal(options)` calls on the page (failed ones included).
MaxModals == 2
\* Number of close() calls on the page (explicit ones and click-triggered ones).
MaxCloses == 2
\* Granularity of the clock: time advances in quanta of TickStep milliseconds.
TickStep == 125

\* ------------------------------------------------------- program constants
\* The default of the animation duration (Modal constructor).
DefaultAnimationTime == 250
\* The delay of the appear timer: setTimeout(..., 0).
AppearDelay == 0

\* ------------------------------------------------------------------ inputs
Undefined == <<>>
TextContents == {Undefined, <<"">>, <<"Hello">>}
InnerHTMLs == {Undefined, <<"">>, <<"<b>x</b>">>}
CloseOnCoverClicks == {Undefined, <<TRUE>>, <<FALSE>>}
AnimationTimes == {Undefined, <<0>>, <<100>>}
\* "fadeTime" is no key of ModalOptions, but a caller's record may carry it.
FadeTimes == {Undefined, <<100>>}

Options ==
    [textContent : TextContents, innerHTML : InnerHTMLs,
     closeOnCoverClick : CloseOnCoverClicks, animationTime : AnimationTimes,
     fadeTime : FadeTimes]

\* ------------------------------------------------------------------- nodes
Null == <<"null", 0>>
Document == <<"document", 0>>
Html == <<"html", 0>>
Body == <<"body", 0>>
\* The content the page had in its body before any Modal was constructed.
Page == <<"page", 0>>
RegionElement(r) == <<"region", r>>
Cover(m) == <<"cover", m>>
Content(m) == <<"content", m>>
\* The element that parsing the inner markup "<b>x</b>" puts into the content.
Inner(m) == <<"b", m>>

VARIABLES
    windowModalRegion, \* window.modalRegion: 0 is undefined, r > 0 is regions[r]
    regions,           \* the ModalRegion instances: regions[r].children = element.children
    body,              \* document.body.children
    modals,            \* the Modal instances, in the order of their construction
    timers,            \* the pending setTimeout callbacks, in the order they were set
    microtasks,        \* the pending promise reactions (close() calls to finish)
    closes,            \* the promises that the close() calls returned
    event              \* the click event dispatched by the last step, Null if none

vars == <<windowModalRegion, regions, body, modals, timers, microtasks, closes, event>>

\* modal.global.js: the state of the script that publishes Modal on window.
VARIABLES
    windowModal,       \* window.Modal: "null" until the modules are loaded, then "Modal"
    handlers,          \* the closure's handlers array
    passed,            \* every call of onModalReady so far: its handler, and whether Modal was set
    invoked            \* every call of a handler so far: the handler and its argument

readyVars == <<windowModal, handlers, passed, invoked>>

\* ------------------------------------------------------------- DOM helpers
IsIn(node, children) == \E i \in 1..Len(children) : children[i] = node

\* Without(children, node): the children after node.remove().
Without(children, node) ==
    LET keep == {i \in 1..Len(children) : children[i] # node}
        F[i \in 0..Len(children)] ==
            IF i = 0 THEN <<>>
            ELSE IF i \in keep THEN Append(F[i - 1], children[i]) ELSE F[i - 1]
    IN F[Len(children)]

AppendChildWrong(children, node) == <<node>> \o Without(children, node)
\* parent.appendChild(node): node becomes the last child.
AppendChild(children, node) == Append(Without(children, node), node)

InsertBeforeFirstChildWrong(children, node) == Append(Without(children, node), node)
\* parent.insertBefore(node, parent.firstChild): node becomes the first child.
InsertBeforeFirstChild(children, node) == <<node>> \o Without(children, node)

RemoveWrong(children, node) ==
    IF children = <<>> THEN children ELSE SubSeq(children, 1, Len(children) - 1)
\* node.remove(), seen from the parent's children; no effect on a non-child.
Remove(children, node) == Without(children, node)

\* node.parentNode in the current tree.
ParentNode(node) ==
    LET kind == node[1]
        id == node[2]
    IN CASE kind = "b" ->
              IF id \in 1..Len(modals) /\ IsIn(node, modals[id].content.children)
              THEN Content(id) ELSE Null
         [] kind = "content" ->
              IF id \in 1..Len(modals) /\ IsIn(node, modals[id].cover.children)
              THEN Cover(id) ELSE Null
         [] kind = "cover" ->
              IF \E r \in 1..Len(regions) : IsIn(node, regions[r].children)
              THEN RegionElement(CHOOSE r \in 1..Len(regions) : IsIn(node, regions[r].children))
              ELSE Null
         [] kind \in {"region", "page"} -> IF IsIn(node, body) THEN Body ELSE Null
         [] kind = "body" -> Html
         [] kind = "html" -> Document
         [] OTHER -> Null

\* --------------------------------------------------------------- isNested
RECURSIVE Walk(_, _, _)
\* The loop of isNested: walk = walk.parentNode, then the test against ancestor.
Walk(walk, ancestor, fuel) ==
    IF walk = Null \/ fuel = 0 THEN FALSE
    ELSE LET next == ParentNode(walk)
         IN IF next = ancestor THEN TRUE ELSE Walk(next, ancestor, fuel - 1)

\* No parent chain of the model is longer than this (b, content, cover, region,
\* body, html, document).
MaxDepth == 8

IsNestedWrong(descendant, ancestor) ==
    descendant = ancestor \/ Walk(descendant, ancestor, MaxDepth)
\* isNested(descendant, ancestor)
IsNested(descendant, ancestor) == Walk(descendant, ancestor, MaxDepth)

\* ------------------------------------------------------------ ModalRegion
\* A fresh ModalRegion: its element has no children yet.
NewRegion == [children |-> <<>>]

\* ModalRegion.modals: the element's children, each mapped to child.modal (the
\* back-reference that the cover's initializer stored: Cover(m).modal is m).
RegionModals(r) == [i \in 1..Len(regions[r].children) |-> regions[r].children[i][2]]

UseExistingRegionWrong(w) == FALSE
\* The truthiness test of `window.modalRegion || (... = new ModalRegion())`.
UseExistingRegion(w) == w # 0

\* ------------------------------------------------------------------ Modal
\* A JavaScript string option is truthy when it is defined and not empty.
Truthy(opt) == opt # Undefined /\ opt[1] # ""

\* `this.animationTime > 0`; undefined > 0 is false.
GreaterThanZero(opt) == opt # Undefined /\ opt[1] > 0

ThrowsWrong(options) ==
    options.innerHTML # Undefined /\ options.textContent = Undefined
\* The "sensible errors" test of the constructor.
Throws(options) ==
    options.innerHTML # Undefined /\ options.textContent # Undefined

\* The children that assigning innerHTML = markup gives the content element of
\* modal m: the markup "<b>x</b>" parses to one element, text parses to none.
ParseMarkup(markup, m) ==
    IF markup = "<b>x</b>" THEN <<Inner(m)>> ELSE <<>>

\* createContent(), then the textContent and innerHTML assignments: the content
\* element, of which the model keeps the child elements.
ContentOf(options, m) ==
    IF Truthy(options.innerHTML)
    THEN [children |-> ParseMarkup(options.innerHTML[1], m)]
    ELSE [children |-> <<>>]

ClosesOnCoverClickWrong(options) ==
    IF options.closeOnCoverClick # Undefined THEN options.closeOnCoverClick[1] ELSE FALSE
ClosesOnCoverClickAlways(options) == TRUE
\* Whether the constructor installs cover.onclick.
ClosesOnCoverClick(options) ==
    IF options.closeOnCoverClick # Undefined THEN options.closeOnCoverClick[1] ELSE TRUE

\* The "defaulted property representing fade duration": the key tested is
\* "fadeTime", the value read is options.animationTime.
AnimationTimeOf(options) ==
    IF options.fadeTime # Undefined THEN options.animationTime
    ELSE <<DefaultAnimationTime>>

\* makeElement("div", {"class": "modal-cover"}, e => e.modal = this)
NewCover == [opacity |-> "", transition |-> Undefined, onclick |-> FALSE, children |-> <<>>]

AppearWrong(cover, animationTime) ==
    IF GreaterThanZero(animationTime)
    THEN [cover EXCEPT !.opacity = "1", !.transition = animationTime]
    ELSE cover
\* appear(): the cover after its synchronous part.
Appear(cover, animationTime) ==
    IF GreaterThanZero(animationTime)
    THEN [cover EXCEPT !.opacity = "0", !.transition = animationTime]
    ELSE cover

AppearTimersWrong(m, animationTime) == timers
\* appear(): the timers after it; the callback is set with a delay of 0.
AppearTimers(m, animationTime) ==
    IF GreaterThanZero(animationTime)
    THEN Append(timers, [kind |-> "appear", modal |-> m, delay |-> AppearDelay,
                         elapsed |-> 0, close |-> 0])
    ELSE timers

DisappearWrong(cover, animationTime) == cover
\* disappear(): the cover after its synchronous part.
Disappear(cover, animationTime) ==
    IF GreaterThanZero(animationTime) THEN [cover EXCEPT !.opacity = "0"] ELSE cover

DisappearDelayWrong(animationTime) == 0
\* disappear(): the delay of its timer.
DisappearDelay(animationTime) == animationTime[1]

Attached(m) ==
    m \in 1..Len(modals) /\ ParentNode(Cover(m)) # Null

Init ==
    /\ windowModalRegion = 0
    /\ regions = <<>>
    /\ body = <<Page>>
    /\ modals = <<>>
    /\ timers = <<>>
    /\ microtasks = <<>>
    /\ closes = <<>>
    /\ event = Null
    /\ windowModal = "null"
    /\ handlers = <<>>
    /\ passed = <<>>
    /\ invoked = <<>>

\* new Modal(options): the field initializers (region, cover, content), then
\* the constructor's body.
Construct(options) ==
    /\ Len(modals) < MaxModals
    /\ LET m == Len(modals) + 1
           reuse == UseExistingRegion(windowModalRegion)
           r == IF reuse THEN windowModalRegion ELSE Len(regions) + 1
           regions1 == IF reuse THEN regions ELSE Append(regions, NewRegion)
           body1 == IF reuse THEN body
                    ELSE InsertBeforeFirstChild(body, RegionElement(r))
           animationTime == AnimationTimeOf(options)
           cover == Appear([NewCover EXCEPT !.children = AppendChild(@, Content(m)),
                                           !.onclick = ClosesOnCoverClick(options)],
                           animationTime)
       IN /\ windowModalRegion' = r
          /\ body' = body1
          /\ IF Throws(options)
             THEN /\ modals' = Append(modals,
                        [region |-> r, cover |-> NewCover,
                         content |-> [children |-> <<>>],
                         animationTime |-> Undefined, thrown |-> TRUE])
                  /\ regions' = regions1
                  /\ timers' = timers
             ELSE /\ modals' = Append(modals,
                        [region |-> r, cover |-> cover,
                         content |-> ContentOf(options, m),
                         animationTime |-> animationTime, thrown |-> FALSE])
                  /\ regions' = [regions1 EXCEPT ![r].children = AppendChild(@, Cover(m))]
                  /\ timers' = AppearTimers(m, animationTime)
    /\ event' = Null
    /\ UNCHANGED readyVars
    /\ UNCHANGED <<microtasks, closes>>

\* close() on modal m: disappear(), then the reaction that removes the cover.
CloseCall(m) ==
    LET c == Len(closes) + 1
        animationTime == modals[m].animationTime
    IN /\ closes' = Append(closes, [modal |-> m, state |-> "pending"])
       /\ IF GreaterThanZero(animationTime)
          THEN /\ modals' = [modals EXCEPT ![m].cover = Disappear(@, animationTime)]
               /\ timers' = Append(timers,
                     [kind |-> "disappear", modal |-> m,
                      delay |-> DisappearDelay(animationTime),
                      elapsed |-> 0, close |-> c])
               /\ microtasks' = microtasks
          ELSE /\ microtasks' = Append(microtasks, c)
               /\ UNCHANGED <<modals, timers>>

\* The reaction of close(): this.cover.remove(), which resolves close c.
RemoveCover(c) ==
    LET m == closes[c].modal
        parent == ParentNode(Cover(m))
    IN /\ regions' = IF parent = Null THEN regions
                     ELSE [regions EXCEPT ![parent[2]].children = Remove(@, Cover(m))]
       /\ closes' = [closes EXCEPT ![c].state = "resolved"]

\* A caller's modal.close().
Close(m) ==
    /\ m \in 1..Len(modals)
    /\ ~modals[m].thrown
    /\ Len(closes) < MaxCloses
    /\ CloseCall(m)
    /\ event' = Null
    /\ UNCHANGED readyVars
    /\ UNCHANGED <<windowModalRegion, regions, body>>

\* The targets a click that reaches the cover of modal m can have.
Targets(m) ==
    {Cover(m)}
        \cup {modals[m].cover.children[i] : i \in 1..Len(modals[m].cover.children)}
        \cup {modals[m].content.children[i] : i \in 1..Len(modals[m].content.children)}

IgnoresClickWrong(m, target) == target = Content(m)
\* Whether cover.onclick returns before close().
IgnoresClick(m, target) == target = Content(m) \/ IsNested(target, Content(m))

\* A click event with the given target, dispatched to the cover of modal m.
Click(m, target) ==
    /\ m \in 1..Len(modals)
    /\ ~modals[m].thrown
    /\ target \in Targets(m)
    /\ event' = target
    /\ UNCHANGED readyVars
    /\ UNCHANGED <<windowModalRegion, regions, body>>
    /\ IF modals[m].cover.onclick /\ ~IgnoresClick(m, target)
       THEN Len(closes) < MaxCloses /\ CloseCall(m)
       ELSE UNCHANGED <<modals, timers, microtasks, closes>>

\* The promise job queue runs its first job: the reaction of a close() whose
\* disappear() resolved at once.
RunMicrotask ==
    /\ microtasks # <<>>
    /\ RemoveCover(Head(microtasks))
    /\ microtasks' = Tail(microtasks)
    /\ event' = Null
    /\ UNCHANGED readyVars
    /\ UNCHANGED <<windowModalRegion, body, modals, timers>>

\* Timer i has run out, and so has every timer set before it with a delay that
\* is no longer (the order setTimeout guarantees).
Due(i) ==
    /\ timers[i].elapsed >= timers[i].delay
    /\ \A j \in 1..(i - 1) : timers[j].delay > timers[i].delay

TimersWithoutWrong(i) == <<>>
\* The timers after the callback of timer i has run.
TimersWithout(i) == SubSeq(timers, 1, i - 1) \o SubSeq(timers, i + 1, Len(timers))

\* The callback of appear()'s timer.
FireAppear(i) ==
    /\ i \in 1..Len(timers)
    /\ timers[i].kind = "appear"
    /\ microtasks = <<>>
    /\ Due(i)
    /\ modals' = [modals EXCEPT ![timers[i].modal].cover.opacity = "1"]
    /\ timers' = TimersWithout(i)
    /\ event' = Null
    /\ UNCHANGED readyVars
    /\ UNCHANGED <<windowModalRegion, regions, body, microtasks, closes>>

\* The callback of disappear()'s timer: resolve(), and with it the reaction of
\* close(), which runs before any other task.
FireDisappear(i) ==
    /\ i \in 1..Len(timers)
    /\ timers[i].kind = "disappear"
    /\ microtasks = <<>>
    /\ Due(i)
    /\ RemoveCover(timers[i].close)
    /\ timers' = TimersWithout(i)
    /\ event' = Null
    /\ UNCHANGED readyVars
    /\ UNCHANGED <<windowModalRegion, body, modals, microtasks>>

Min(a, b) == IF a < b THEN a ELSE b

\* TickStep milliseconds pass.
Tick ==
    /\ \E i \in 1..Len(timers) : timers[i].elapsed < timers[i].delay
    /\ timers' = [i \in 1..Len(timers) |->
                    [timers[i] EXCEPT !.elapsed = Min(@ + TickStep, timers[i].delay)]]
    /\ event' = Null
    /\ UNCHANGED readyVars
    /\ UNCHANGED <<windowModalRegion, regions, body, modals, microtasks, closes>>

Next ==
    \/ \E options \in Options : Construct(options)
    \/ \E m \in 1..Len(modals) : Close(m)
    \/ \E m \in 1..Len(modals) : \E target \in Targets(m) : Click(m, target)
    \/ RunMicrotask
    \/ \E i \in 1..Len(timers) : FireAppear(i)
    \/ \E i \in 1..Len(timers) : FireDisappear(i)
    \/ Tick

Spec == Init /\ [][Next]_vars

\* The event loop runs every job and every timer that is due, and time passes.
FairSpec ==
    /\ Spec
    /\ WF_vars(RunMicrotask)
    /\ WF_vars(\E i \in 1..Len(timers) : FireAppear(i))
    /\ WF_vars(\E i \in 1..Len(timers) : FireDisappear(i))
    /\ WF_vars(Tick)

\* ------------------------------------------------------------- properties
Constructed == {m \in 1..Len(modals) : ~modals[m].thrown}
Failed == {m \in 1..Len(modals) : modals[m].thrown}
ClosesOf(m) == {c \in 1..Len(closes) : closes[c].modal = m}
ResolvedOf(m) == {c \in ClosesOf(m) : closes[c].state = "resolved"}
InRegionModals(m) ==
    \E r \in 1..Len(regions) : \E i \in 1..Len(RegionModals(r)) : RegionModals(r)[i] = m
NewModal == modals'[Len(modals')]
\* The option records of the claims' cases.
BothGiven == {o \in Options : Truthy(o.textContent) /\ Truthy(o.innerHTML)}
Succeeding == {o \in Options : ~Throws(o)}
DismissEnabled == {o \in Succeeding : o.closeOnCoverClick \in {Undefined, <<TRUE>>}}
DismissDisabled == {o \in Succeeding : o.closeOnCoverClick = <<FALSE>>}
DurationZero == {o \in Succeeding : o.animationTime = <<0>>}
PageState == <<windowModalRegion, regions, body>>
ModalState == <<windowModalRegion, regions, body, modals, timers, microtasks, closes>>

\* C1: there is at most one ModalRegion; once a Modal was constructed (or its
\* construction failed) the region exists, is the one in window.modalRegion,
\* and is the region of every Modal.
C1_OneRegion ==
    /\ Len(regions) <= 1
    /\ windowModalRegion = Len(regions)
    /\ modals # <<>> => Len(regions) = 1
    /\ \A m \in 1..Len(modals) : modals[m].region = windowModalRegion

C1_Witness ==
    /\ Len(modals) >= 2
    /\ modals[1].thrown
    /\ ~modals[2].thrown
    /\ modals[1].region = modals[2].region
    /\ ResolvedOf(2) # {}

\* C2: ModalRegion.modals is the sequence of the Modals that were constructed
\* and whose cover no close() has removed, each once, in construction order.
C2_RegionModals ==
    /\ windowModalRegion = 0 => Constructed = {}
    /\ windowModalRegion # 0 =>
         LET s == RegionModals(windowModalRegion)
         IN /\ {s[i] : i \in 1..Len(s)} = {m \in Constructed : ResolvedOf(m) = {}}
            /\ \A i, j \in 1..Len(s) : i < j => s[i] < s[j]
            /\ \A m \in Constructed : Attached(m) <=> InRegionModals(m)

C2_Witness ==
    /\ windowModalRegion # 0
    /\ RegionModals(windowModalRegion) = <<1, 2>>
    /\ closes # <<>>

\* C3: a construction with both a text content and an inner markup, neither
\* empty, throws, and the cover of a construction that threw is never in the
\* region.
C3_BothThrows ==
    /\ [](\A m \in Failed : ~Attached(m) /\ ~InRegionModals(m))
    /\ [][Len(modals') = Len(modals) + 1 =>
            \A o \in BothGiven : Construct(o) => NewModal.thrown]_vars

C3_Witness == \E m \in Failed : Len(modals) > m /\ closes # <<>>

\* C4: as long as every construction on the page has failed, the page is as it
\* was: no region in window.modalRegion, no region created, nothing inserted
\* into the body.
C4_FailedLeavesPage ==
    (modals # <<>> /\ Constructed = {}) =>
        /\ windowModalRegion = 0
        /\ regions = <<>>
        /\ body = <<Page>>

\* C5: a click whose target is the content element or a descendant of it
\* changes nothing: no cover's attachment or opacity, no timer, no close().
C5_ContentClickIgnored ==
    [][event'[1] \in {"content", "b"} => UNCHANGED ModalState]_vars

C5_Witness ==
    /\ event[1] = "b"
    /\ modals[event[2]].cover.onclick
    /\ Attached(event[2])
    /\ ClosesOf(event[2]) # {}
    /\ ResolvedOf(event[2]) = {}

\* C6: a Modal constructed with closeOnCoverClick true or absent has the click
\* handler; a click on its cover itself calls close() on it; and a cover on
\* which close() was called by such a click is eventually out of the region.
C6_CoverClickCloses ==
    /\ [][Len(modals') = Len(modals) + 1 =>
            \A o \in DismissEnabled : Construct(o) => NewModal.cover.onclick]_vars
    /\ [][(event'[1] = "cover" /\ modals[event'[2]].cover.onclick) =>
            /\ Len(closes') = Len(closes) + 1
            /\ closes'[Len(closes')] = [modal |-> event'[2], state |-> "pending"]]_vars
    /\ \A m \in 1..MaxModals :
          (event = Cover(m) /\ modals[m].cover.onclick) ~> ~InRegionModals(m)

C6_Witness ==
    /\ event[1] = "cover"
    /\ modals[event[2]].cover.onclick
    /\ InRegionModals(event[2])
    /\ \E i \in 1..Len(timers) :
          timers[i].kind = "disappear" /\ timers[i].modal = event[2]

\* C7: a Modal constructed with closeOnCoverClick false has no click handler;
\* a click on its cover or inside it changes nothing; and as long as close()
\* was not called on it, it is in ModalRegion.modals.
C7_NoDismissWhenDisabled ==
    /\ [][Len(modals') = Len(modals) + 1 =>
            \A o \in DismissDisabled : Construct(o) => ~NewModal.cover.onclick]_vars
    /\ [][(event' # Null /\ ~modals[event'[2]].cover.onclick) =>
            UNCHANGED ModalState]_vars
    /\ [](\A m \in Constructed :
            (~modals[m].cover.onclick /\ ClosesOf(m) = {}) => InRegionModals(m))

C7_Witness ==
    /\ event[1] = "cover"
    /\ ~modals[event[2]].cover.onclick
    /\ InRegionModals(event[2])
    /\ \E m \in Constructed : m # event[2] /\ ResolvedOf(m) # {}

\* C8: for a Modal whose animationTime is > 0, a close() resolves only in the
\* step of its own disappear timer, when that timer has run for at least
\* animationTime; the cover leaves the region only in such a step; and after
\* the step the Modal is not in ModalRegion.modals.
C8_CloseAfterDuration ==
    /\ [][\A c \in 1..Len(closes) :
            (/\ closes[c].state = "pending"
             /\ closes'[c].state = "resolved"
             /\ GreaterThanZero(modals[closes[c].modal].animationTime)) =>
                /\ \E i \in 1..Len(timers) :
                      /\ timers[i].kind = "disappear"
                      /\ timers[i].close = c
                      /\ timers[i].elapsed >= modals[closes[c].modal].animationTime[1]
                      /\ Len(timers') = Len(timers) - 1
                /\ ~InRegionModals(closes[c].modal)']_vars
    /\ [][\A m \in Constructed :
            (/\ GreaterThanZero(modals[m].animationTime)
             /\ InRegionModals(m)
             /\ ~InRegionModals(m)') =>
                \E c \in ClosesOf(m) :
                    closes[c].state = "pending" /\ closes'[c].state = "resolved"]_vars

C8_Witness ==
    \E m \in Constructed :
        /\ GreaterThanZero(modals[m].animationTime)
        /\ ResolvedOf(m) # {}
        /\ ClosesOf(m) # ResolvedOf(m)

\* The lifecycle of a constructed Modal, read from the page: 1 visible (in the
\* region, close() never called), 2 closing (in the region, close() called),
\* 3 closed (not in the region).
StageOf(m) ==
    IF ~InRegionModals(m) THEN 3 ELSE IF ClosesOf(m) # {} THEN 2 ELSE 1

\* C9: the lifecycle of a Modal never moves backwards, and a Modal of which a
\* close() has resolved is not in ModalRegion.modals, whatever happens later.
C9_ForwardOnly ==
    /\ [][\A m \in Constructed : StageOf(m)' >= StageOf(m)]_vars
    /\ [](\A m \in Constructed : ResolvedOf(m) # {} => ~InRegionModals(m))

C9_Witness ==
    \E m \in Constructed :
        /\ ResolvedOf(m) # {}
        /\ ClosesOf(m) # ResolvedOf(m)
        /\ event = Cover(m)
        /\ Len(modals) > m

\* C10: a construction with the animationTime option 0 leaves the cover's
\* opacity unset and sets no timer.
C10_ZeroDurationNoFade ==
    [][Len(modals') = Len(modals) + 1 =>
        \A o \in DurationZero :
            Construct(o) => (NewModal.cover.opacity = "" /\ timers' = timers)]_vars

\* The Modal that the step constructed is in ModalRegion.modals after the step.
NewInRegionModals ==
    \E n \in 1..MaxModals : n = Len(modals') /\ InRegionModals(n)'

\* The duration the options record asks for: its animationTime when it has
\* one, 250 otherwise.
AskedDuration(o) ==
    IF o.animationTime # Undefined THEN o.animationTime ELSE <<DefaultAnimationTime>>

\* C11: the animationTime of a constructed Modal is the animationTime of its
\* options record when the record has one, and 250 when it has none.
C11_DurationFromOptions ==
    [][Len(modals') = Len(modals) + 1 =>
        \A o \in Succeeding :
            Construct(o) => NewModal.animationTime = AskedDuration(o)]_vars

ZeroWithText == {o \in DurationZero : Truthy(o.textContent)}

\* C12: a Modal constructed with a text content and the animationTime option 0
\* is in ModalRegion.modals when the constructor returns and has no animation;
\* a close() on a Modal without animation sets no timer, its reaction is a
\* promise job, and when that job has run the Modal is not in
\* ModalRegion.modals.
C12_ZeroDurationClose ==
    /\ [][Len(modals') = Len(modals) + 1 =>
            \A o \in ZeroWithText :
                Construct(o) =>
                    /\ NewInRegionModals
                    /\ ~GreaterThanZero(NewModal.animationTime)]_vars
    /\ [][(/\ Len(closes') = Len(closes) + 1
           /\ ~GreaterThanZero(modals[closes'[Len(closes')].modal].animationTime)) =>
                /\ timers' = timers
                /\ microtasks' = Append(microtasks, Len(closes'))]_vars
    /\ [][(microtasks # <<>> /\ microtasks' = Tail(microtasks)) =>
            \E c \in 1..MaxCloses : \E m \in 1..MaxModals :
                /\ c = Head(microtasks)
                /\ m = closes[c].modal
                /\ closes'[c].state = "resolved"
                /\ ~InRegionModals(m)']_vars

AppearPending(m) ==
    \E i \in 1..Len(timers) : timers[i].kind = "appear" /\ timers[i].modal = m
\* The appear timer of the Modal that the step constructed is pending after it.
NewAppearPending ==
    \E n \in 1..MaxModals : n = Len(modals') /\ AppearPending(n)'
\* The step constructed a Modal, without a throw, whose animationTime is > 0.
ConstructsAnimated ==
    /\ Len(modals') = Len(modals) + 1
    /\ ~NewModal.thrown
    /\ GreaterThanZero(NewModal.animationTime)

\* C13: when the constructor of a Modal with animation returns, the cover is
\* in the region and the appear timer is still pending; a cover in the region
\* has had the synchronous part of appear() applied; and as long as the appear
\* timer is pending the cover is in the region, so its callback runs after the
\* attachment.
C13_AppearThenAttach ==
    /\ [][ConstructsAnimated =>
            /\ NewInRegionModals
            /\ NewAppearPending]_vars
    /\ [](\A m \in Constructed :
            (GreaterThanZero(modals[m].animationTime) /\ InRegionModals(m)) =>
                /\ modals[m].cover.opacity # ""
                /\ modals[m].cover.transition = modals[m].animationTime)
    /\ [](\A m \in 1..Len(modals) : AppearPending(m) => InRegionModals(m))

C13_Witness ==
    /\ Len(modals) = 2
    /\ AppearPending(2)
    /\ InRegionModals(2)
    /\ ClosesOf(2) # {}
    /\ ~AppearPending(1)
    /\ modals[1].cover.opacity = "1"

\* C14: the constructor of a Modal with animation returns with the cover's
\* opacity "0", and an opacity becomes "1" only in a later step that runs the
\* Modal's appear timer, never in the step of the construction.
C14_FadeInNotInstant ==
    /\ [][ConstructsAnimated => NewModal.cover.opacity = "0"]_vars
    /\ [][\A m \in 1..Len(modals') :
            (/\ modals'[m].cover.opacity = "1"
             /\ (m > Len(modals) \/ modals[m].cover.opacity # "1")) =>
                /\ m <= Len(modals)
                /\ Len(modals') = Len(modals)
                /\ AppearPending(m)
                /\ ~AppearPending(m)']_vars

C14_Witness ==
    \E m \in Constructed :
        /\ GreaterThanZero(modals[m].animationTime)
        /\ modals[m].cover.opacity = "1"
        /\ ~AppearPending(m)
        /\ ClosesOf(m) = {}

\* The two conjuncts of C12 that are about close().
CloseWithoutAnimationLemma ==
    /\ [][(/\ Len(closes') = Len(closes) + 1
           /\ ~GreaterThanZero(modals[closes'[Len(closes')].modal].animationTime)) =>
                /\ timers' = timers
                /\ microtasks' = Append(microtasks, Len(closes'))]_vars
    /\ [][(microtasks # <<>> /\ microtasks' = Tail(microtasks)) =>
            \E c \in 1..MaxCloses : \E m \in 1..MaxModals :
                /\ c = Head(microtasks)
                /\ m = closes[c].modal
                /\ closes'[c].state = "resolved"
                /\ ~InRegionModals(m)']_vars

\* C15: once the region exists, its element is the first child of the body.
C15_RegionFirstChild ==
    /\ windowModalRegion = 0 => body = <<Page>>
    /\ windowModalRegion # 0 =>
         /\ body # <<>>
         /\ Head(body) = RegionElement(windowModalRegion)
         /\ ParentNode(RegionElement(windowModalRegion)) = Body

C15_Witness ==
    /\ Len(modals) = 2
    /\ Head(body) = RegionElement(1)
    /\ ResolvedOf(1) # {}
    /\ InRegionModals(2)
    /\ event = Cover(2)

\* The nodes that exist on the page.
AllNodes ==
    {Document, Html, Body, Page}
        \cup {RegionElement(r) : r \in 1..Len(regions)}
        \cup {Cover(m) : m \in 1..Len(modals)}
        \cup {Content(m) : m \in 1..Len(modals)}
        \cup {Inner(m) : m \in {n \in 1..Len(modals) : modals[n].content.children # <<>>}}

\* ParentChain(node)[k]: the node k parent links above node, Null beyond the end.
ParentChain(node) ==
    LET P[k \in 0..MaxDepth] ==
            IF k = 0 THEN node
            ELSE LET below == P[k - 1]
                 IN IF below = Null THEN Null ELSE ParentNode(below)
    IN P

\* C16: on every tree the page can have, the parent chain of every node ends,
\* and isNested(descendant, ancestor) is true exactly when ancestor is one or
\* more parent links above descendant; it is false of a node and itself.
C16_IsNested ==
    \A d \in AllNodes :
        LET chain == ParentChain(d)
            properAncestors == {chain[k] : k \in 1..MaxDepth} \ {Null}
        IN /\ chain[MaxDepth - 1] = Null
           /\ ~IsNested(d, d)
           /\ \A a \in AllNodes : IsNested(d, a) <=> a \in properAncestors

C16_Witness ==
    /\ Len(modals) = 2
    /\ Inner(1) \in AllNodes
    /\ IsNested(Inner(1), Content(1))
    /\ IsNested(Inner(1), Document)
    /\ ~IsNested(Content(1), Inner(1))
    /\ ResolvedOf(2) # {}
    /\ ~IsNested(Cover(2), Body)
    /\ IsNested(Content(2), Cover(2))

\* The Modal is closing: close() was called on it and its cover is in the region.
Closing(m) == InRegionModals(m) /\ ClosesOf(m) # {}
Quiescent == \A c \in 1..Len(closes) : closes[c].state = "resolved"

\* C17: when every close() has resolved, ModalRegion.modals is the constructed
\* Modals on which close() was never called, in construction order, however
\* often close() was called on the others; and the reaction of a close() on a
\* Modal whose cover an earlier close() removed changes no region.
C17_CloseIdempotent ==
    /\ [](Quiescent /\ windowModalRegion # 0 =>
            LET s == RegionModals(windowModalRegion)
            IN /\ {s[i] : i \in 1..Len(s)} = {m \in Constructed : ClosesOf(m) = {}}
               /\ \A i, j \in 1..Len(s) : i < j => s[i] < s[j])
    /\ [][\A c \in 1..Len(closes) :
            (/\ closes[c].state = "pending"
             /\ closes'[c].state = "resolved"
             /\ ResolvedOf(closes[c].modal) # {}) => regions' = regions]_vars

C17_Witness ==
    /\ Len(modals) = 2
    /\ Cardinality(ResolvedOf(1)) = 2
    /\ Quiescent
    /\ RegionModals(windowModalRegion) = <<2>>

\* C18 as claimed: a Modal with animation that is closing has opacity "0".
C18_OpacityStaysZero ==
    \A m \in Constructed :
        (GreaterThanZero(modals[m].animationTime) /\ Closing(m)) =>
            modals[m].cover.opacity = "0"

\* C18 as amended: when the appear timer of a Modal with animation is not
\* pending, a step that makes the Modal closing leaves the cover's opacity at
\* "0", and so does every step that keeps it closing once the opacity is "0":
\* a close() called after the appear timer has run keeps the opacity at "0"
\* until the cover is removed.
C18_OpacityStaysZeroAfterAppear ==
    [][\A m \in Constructed :
        (/\ GreaterThanZero(modals[m].animationTime)
         /\ ~AppearPending(m)
         /\ (~Closing(m) \/ modals[m].cover.opacity = "0")
         /\ Closing(m)') => modals'[m].cover.opacity = "0"]_vars

C18_Witness ==
    \E m \in Constructed :
        /\ GreaterThanZero(modals[m].animationTime)
        /\ ~AppearPending(m)
        /\ Closing(m)
        /\ modals[m].cover.opacity = "0"
        /\ Cardinality(ClosesOf(m)) = 2
        /\ \E i \in 1..Len(timers) : timers[i].modal = m /\ timers[i].elapsed > 0

\* The timers of modal m among ts, in their order.
TimersFor(ts, m) ==
    LET F[i \in 0..Len(ts)] ==
            IF i = 0 THEN <<>>
            ELSE IF ts[i].modal = m THEN Append(F[i - 1], ts[i]) ELSE F[i - 1]
    IN F[Len(ts)]

\* Nothing of the Modals other than m changes in the step: their fields (the
\* cover's opacity among them), their timers, their place in the region.
OthersUntouched(m) ==
    /\ Len(modals') = Len(modals)
    /\ Len(regions') = Len(regions)
    /\ \A r \in 1..Len(regions) :
          Without(regions'[r].children, Cover(m)) = Without(regions[r].children, Cover(m))
    /\ \A o \in 1..Len(modals) :
          o # m =>
            /\ modals'[o] = modals[o]
            /\ InRegionModals(o)' = InRegionModals(o)
            /\ TimersFor(timers', o) = TimersFor(timers, o)

\* C20: a step in which close() is called on a Modal, or in which a close() of
\* a Modal resolves (its disappear timer or its promise job runs), changes
\* nothing of the other Modals.
C20_CloseFrame ==
    [][\A c \in 1..Len(closes') :
        (c > Len(closes) \/ closes'[c] # closes[c]) =>
            \E m \in 1..MaxModals : m = closes'[c].modal /\ OthersUntouched(m)]_vars

C20_Witness ==
    /\ Len(modals) = 2
    /\ ResolvedOf(1) # {}
    /\ Cardinality(ClosesOf(1)) = 2
    /\ InRegionModals(2)
    /\ AppearPending(2)
    /\ ClosesOf(2) = {}

\* ------------------------------------------------- modal.global.js: onModalReady
MaxHandlers == 3

\* The handlers the page passes to onModalReady: f and g return at once, n
\* calls onModalReady(f) when it runs.
Functions == {"f", "g", "n"}

Registers(handler) == IF handler = "n" THEN <<"f">> ELSE <<>>

ReadyState ==
    [windowModal |-> windowModal, handlers |-> handlers,
     passed |-> passed, invoked |-> invoked]

IsLoadedWrong(w) == FALSE
\* if (window.Modal)
IsLoaded(w) == w # "null"

RECURSIVE OnModalReady(_, _)
RECURSIVE Call(_, _, _)

\* handler(argument): the call is logged, then the handler's body runs.
Call(s, handler, argument) ==
    LET called == [s EXCEPT !.invoked =
                        Append(@, [handler |-> handler, argument |-> argument])]
        inner == Registers(handler)
        Run[i \in 0..Len(inner)] ==
            IF i = 0 THEN called ELSE OnModalReady(Run[i - 1], inner[i])
    IN Run[Len(inner)]

\* onModalReady(handler)
OnModalReady(s, handler) ==
    LET asked == [s EXCEPT !.passed =
                        Append(@, [handler |-> handler, ready |-> s.windowModal # "null"])]
    IN IF IsLoaded(s.windowModal)
       THEN Call(asked, handler, Undefined)
       ELSE [asked EXCEPT !.handlers = Append(@, handler)]

\* handlers.forEach(handler => handler(window.Modal)) over the elements the
\* array has when forEach starts.
ForEach(s, queued) ==
    LET Each[i \in 0..Len(queued)] ==
            IF i = 0 THEN s ELSE Call(Each[i - 1], queued[i], <<s.windowModal>>)
    IN Each[Len(queued)]

\* The callback of require(): the modules are loaded.
RequireCallback(s) ==
    LET loaded == [s EXCEPT !.windowModal = "Modal"]
    IN [ForEach(loaded, loaded.handlers) EXCEPT !.handlers = <<>>]

SetReadyState(s) ==
    /\ windowModal' = s.windowModal
    /\ handlers' = s.handlers
    /\ passed' = s.passed
    /\ invoked' = s.invoked

\* The page calls onModalReady(handler).
Register(handler) ==
    /\ Len(passed) < MaxHandlers
    /\ SetReadyState(OnModalReady(ReadyState, handler))
    /\ UNCHANGED vars

\* The module loader calls the callback, once.
Load ==
    /\ windowModal = "null"
    /\ SetReadyState(RequireCallback(ReadyState))
    /\ UNCHANGED vars

ReadyNext ==
    \/ \E handler \in Functions : Register(handler)
    \/ Load

ReadySpec == Init /\ [][ReadyNext]_readyVars

HandlersOf(seq) == [i \in 1..Len(seq) |-> seq[i].handler]
PassedEarly(p) == ~p.ready
PassedReady(p) == p.ready
GivenModal(c) == c.argument = <<"Modal">>
GivenNothing(c) == c.argument = Undefined

====
